---- MODULE Spec2Model ----
(***************************************************************************)
(* The update handler of unifi-ddns (src/src/index.ts): one inbound HTTP   *)
(* request is validated, then three to five sequential calls are made to   *)
(* the Cloudflare API, and the outcome is mapped to an HTTP response.      *)
(*                                                                         *)
(* One behaviour of the model is one invocation of fetch().  The handler   *)
(* is suspended at every await; each action is the code that runs from one *)
(* await to the next, the awaited call and its result included.            *)
(*                                                                         *)
(* Optional values (null / undefined in the source) are sequences of       *)
(* length at most one: <<>> is the missing value, <<x>> the value x.       *)
(* Strings whose characters the code inspects are sequences: the decoded   *)
(* Basic payload is a sequence of character codes, an IP literal is a      *)
(* sequence of one-character strings.                                      *)
(***************************************************************************)
EXTENDS Naturals, Sequences, FiniteSets

VARIABLES
    request,    \* the inbound request: query parameters and headers
    pc,         \* where the handler is suspended
    v,          \* result of validateChangeRequest (line 200)
    zone,       \* zones[0] (line 220)
    records,    \* records, local of updateDNSRecord (line 96)
    locations,  \* locations, local of updateGatewayLocation (line 139)
    idx,        \* position of the for..of loop over locations (line 154)
    calls,      \* history: the calls issued to the Cloudflare API, in order
    caught,     \* history: the error caught at line 240, if any
    response    \* the Response returned by fetch, if any

vars == <<request, pc, v, zone, records, locations, idx, calls, caught, response>>

-----------------------------------------------------------------------------
(* Bounds of the model *)

MaxPayloadLen == 3   \* characters in the decoded Basic payload
MaxZones == 2        \* zones returned by zones.list
MaxRecords == 2      \* records returned by dns.records.list
MaxLocations == 3    \* locations returned by gateway.locations.list

-----------------------------------------------------------------------------
(* Values *)

Undefined == <<>>
Null == <<>>
Some(x) == <<x>>

\* JavaScript truthiness of an optional character sequence, string, boolean
TruthySeq(o) == o # <<>> /\ o[1] # <<>>
TruthyString(o) == o # <<>> /\ o[1] # ""
TruthyBool(o) == o # <<>> /\ o[1]

RECURSIVE SeqsUpTo(_, _)
SeqsUpTo(S, n) ==
    IF n = 0 THEN {<<>>}
    ELSE LET shorter == SeqsUpTo(S, n - 1)
         IN  shorter \cup {Append(s, x) : s \in {t \in shorter : Len(t) = n - 1}, x \in S}

\* String.prototype.includes for a single character
includes(s, ch) == \E k \in 1..Len(s) : s[k] = ch

\* String.prototype.indexOf for a single character, 0-based, -1 as <<>>
indexOf(s, ch) ==
    IF includes(s, ch)
    THEN Some(CHOOSE k \in 1..Len(s) : s[k] = ch /\ \A j \in 1..(k - 1) : s[j] # ch)
    ELSE <<>>

\* Character codes used in Basic payloads
NUL == 0
US == 31
DEL == 127
Colon == 58
LetterA == 65

PayloadAlphabet == {NUL, DEL, Colon, LetterA}

\* class HttpError
HttpError(statusCode, message) ==
    [name |-> "HttpError", statusCode |-> statusCode, message |-> message]

\* An error thrown by the Cloudflare client: not an HttpError
APIError == [name |-> "APIError", message |-> "403 Authentication error"]

\* The DOMException atob throws on input that is not base64
InvalidCharacterError ==
    [name |-> "InvalidCharacterError", message |-> "Invalid character"]

\* successResponse()
successResponse == [status |-> 200, body |-> "OK"]

\* enum GateUpdateType
DefaultOnly == "Default"
All == "All"

-----------------------------------------------------------------------------
(* Configuration: Env.  SK is fully configured, HALF has a client key but   *)
(* no Cloudflare token, any other domain is not configured.                 *)

Env == [SK_CLIENT_API_KEY        |-> <<LetterA>>,
        SK_CLOUDFLARE_API_TOKEN  |-> "cf-token-SK",
        HALF_CLIENT_API_KEY      |-> <<LetterA>>]

-----------------------------------------------------------------------------
(* Requests *)

IPv4 == <<"1", ".", "2">>
IPv6 == <<"a", ":", ":", "1">>
auto == <<"a", "u", "t", "o">>

Payloads == SeqsUpTo(PayloadAlphabet, MaxPayloadLen)

\* The Authorization header, as authorization.split(' ') sees it: the text
\* before the first space and the token after it.  The token is base64 of
\* `bytes` when valid, and not base64 at all otherwise.
Base64(p) == [valid |-> TRUE, bytes |-> p]
NotBase64 == [valid |-> FALSE, bytes |-> <<>>]

EmptyHeader == [scheme |-> "", data |-> Undefined]

Headers ==
    {EmptyHeader, [scheme |-> "Basic", data |-> Undefined],
     [scheme |-> "Basic", data |-> Some(NotBase64)]}
    \cup {[scheme |-> "Basic", data |-> Some(Base64(p))] : p \in Payloads}

Requests ==
    [domain        : {Null, Some("SK"), Some("HALF"), Some("XX")},
     authorization : {Null} \cup {Some(h) : h \in Headers},
     ip            : {Null, Some(auto), Some(IPv4)},
     myip          : {Null, Some(IPv6)},
     cfConnectingIp: {Null, Some(IPv4)},
     hostname      : {Null, Some("home.example.com")},
     gateway       : {Null, Some("All"), Some("Default")}]

-----------------------------------------------------------------------------
(* validateChangeRequest, lines 24-92.  The result is [ok |-> TRUE, value   *)
(* |-> ...] or [ok |-> FALSE, error |-> ...] for a throw.                   *)

Return(x) == [ok |-> TRUE, value |-> x, error |-> <<>>]
Throw(e) == [ok |-> FALSE, value |-> <<>>, error |-> e]

\* atob(data); atob(undefined) is atob("undefined"), which is not base64
atobThrows(data) == data = Undefined \/ ~data[1].valid
atob(data) == data[1].bytes

\* hasControlCharacter with \x7F left out of the character class
hasControlCharacter_withoutDEL(decoded) ==
    \E k \in 1..Len(decoded) : decoded[k] >= NUL /\ decoded[k] <= US

\* /[\0-\x1F\x7F]/.test(decoded), line 57
hasControlCharacter(decoded) ==
    \E k \in 1..Len(decoded) : (decoded[k] >= NUL /\ decoded[k] <= US) \/ decoded[k] = DEL

\* requestApiKeyOf taking the part after the first ':' instead of before it
requestApiKeyOf_afterColon(decoded) ==
    LET index == indexOf(decoded, Colon)
    IN  IF index = <<>> THEN decoded ELSE SubSeq(decoded, index[1] + 1, Len(decoded))

\* lines 62-63
requestApiKeyOf(decoded) ==
    LET index == indexOf(decoded, Colon)
    IN  IF index = <<>> THEN decoded ELSE SubSeq(decoded, 1, index[1] - 1)

\* lines 70-91, once the caller is authenticated
resolveRecord(req, cloudflareApiToken) ==
    LET ip0 == IF TruthySeq(req.ip) THEN req.ip ELSE req.myip
        ip  == IF ip0 # Null /\ ip0[1] = auto THEN req.cfConnectingIp ELSE ip0
    IN  IF ip0 = Null
        THEN Throw(HttpError(422, "The \"ip\" parameter is required and cannot be empty. Specify ip=auto to use the client IP."))
        ELSE IF ip = Null
        THEN Throw(HttpError(500, "Request asked for ip=auto but client IP address cannot be determined."))
        ELSE Return([cloudflareApiToken |-> cloudflareApiToken,
                     updateHostIp       |-> req.hostname # Null,
                     updateGatewayIp    |-> req.gateway # Null,
                     gatewayUpdateType  |-> IF req.gateway = Some("All") THEN All ELSE DefaultOnly,
                     record |-> [content |-> ip[1],
                                 name    |-> req.hostname,
                                 type    |-> IF includes(ip[1], ".") THEN "A" ELSE "AAAA",
                                 ttl     |-> 1]])

\* lines 48-67, once the domain's two secrets are found in env
authenticate(req, clientApiKey, cloudflareApiToken) ==
    IF req.authorization = Null \/ req.authorization[1] = EmptyHeader
    THEN Throw(HttpError(401, "Authorization header missing."))
    ELSE LET data == req.authorization[1].data
         IN  IF atobThrows(data) THEN Throw(InvalidCharacterError)
             ELSE LET decoded == atob(data)
                      requestApiKey == requestApiKeyOf(decoded)
                  IN  IF hasControlCharacter(decoded)
                      THEN Throw(HttpError(401, "Invalid API key or token."))
                      ELSE IF requestApiKey = <<>> \/ requestApiKey # clientApiKey
                      THEN Throw(HttpError(401, "Request failed client authentication"))
                      ELSE resolveRecord(req, cloudflareApiToken)

validateChangeRequest(req) ==
    IF req.domain = Null
    THEN Throw(HttpError(400, "The \"domain\" parameter is required and cannot be empty."))
    ELSE LET domain == req.domain[1]
             clientApiKeyName == domain \o "_" \o "CLIENT_API_KEY"
             cloudflareApiTokenName == domain \o "_" \o "CLOUDFLARE_API_TOKEN"
             notConfigured == HttpError(401, "Domain '" \o domain \o "' not configured for updates.")
         IN  IF clientApiKeyName \notin DOMAIN Env THEN Throw(notConfigured)
             ELSE IF cloudflareApiTokenName \notin DOMAIN Env THEN Throw(notConfigured)
             ELSE authenticate(req, Env[clientApiKeyName], Env[cloudflareApiTokenName])

-----------------------------------------------------------------------------
(* The handler: fetch, lines 193-249 *)

\* Catch answering an unclassified error with that error's message
Catch_echo(error) ==
    IF error.name = "HttpError"
    THEN [status |-> error.statusCode, body |-> error.message]
    ELSE [status |-> 500, body |-> error.message]

\* The catch block of fetch, lines 240-248
Catch(error) ==
    IF error.name = "HttpError"
    THEN [status |-> error.statusCode, body |-> error.message]
    ELSE [status |-> 500, body |-> "Internal Server Error"]

\* One call to the Cloudflare API as the history records it: what was called
\* with which arguments, whether it threw, and the identifiers of the items a
\* list returned.
Call(op, id, params, failed, returned) ==
    [op |-> op, id |-> id, params |-> params, failed |-> failed, returned |-> returned]

NoValue == <<>>

idsOf(list) == [k \in 1..Len(list) |-> list[k].id]

\* nothingRequested with the check of line 202 left out
nothingRequested_never(val) == FALSE

\* line 202
nothingRequested(val) == ~val.updateHostIp /\ ~val.updateGatewayIp

\* zonesError without the check for more than one zone
zonesError_onlyEmpty(zones) ==
    IF Len(zones) = 0
    THEN Some(HttpError(400, "No zones found! You must supply an API Token scoped to a single zone."))
    ELSE <<>>

\* lines 214-218: the error the zone count raises, if any
zonesError(zones) ==
    IF Len(zones) > 1
    THEN Some(HttpError(400, "More than one zone was found! You must supply an API Token scoped to a single zone."))
    ELSE IF Len(zones) = 0
    THEN Some(HttpError(400, "No zones found! You must supply an API Token scoped to a single zone."))
    ELSE <<>>

\* recordsError without the check for more than one record
recordsError_onlyEmpty(recs) ==
    IF Len(recs) = 0 \/ recs[1].id = Undefined
    THEN Some(HttpError(400, "No record found! You must first manually create the record."))
    ELSE <<>>

\* lines 104-108: the error the record count raises, if any
recordsError(recs) ==
    IF Len(recs) > 1
    THEN Some(HttpError(400, "More than one matching record found!"))
    ELSE IF Len(recs) = 0 \/ recs[1].id = Undefined
    THEN Some(HttpError(400, "No record found! You must first manually create the record."))
    ELSE <<>>

Init ==
    /\ request \in Requests
    /\ pc = "start"
    /\ v = NoValue
    /\ zone = NoValue
    /\ records = <<>>
    /\ locations = <<>>
    /\ idx = 0
    /\ calls = <<>>
    /\ caught = <<>>
    /\ response = <<>>

\* The handler's frame is gone once it has returned: its locals with it.
DropLocals ==
    /\ v' = NoValue
    /\ zone' = NoValue
    /\ records' = <<>>
    /\ locations' = <<>>
    /\ idx' = 0

\* A throw inside the try block, caught at line 240
Raise(error) ==
    /\ caught' = Some(error)
    /\ response' = Some(Catch(error))
    /\ pc' = "done"
    /\ DropLocals

\* return successResponse(), line 238
Succeed ==
    /\ response' = Some(successResponse)
    /\ pc' = "done"
    /\ caught' = caught
    /\ DropLocals

\* lines 229-238: what follows the DNS update, up to the next await
GatewayPhase(val, zn) ==
    IF val.updateGatewayIp
    THEN IF ~TruthyString(zn.account)
         THEN Raise(HttpError(400, "No account ID found for the zone."))
         ELSE /\ pc' = "locations"
              /\ v' = val /\ zone' = zn
              /\ records' = <<>> /\ locations' = <<>> /\ idx' = 0
              /\ UNCHANGED <<caught, response>>
    ELSE Succeed

\* line 196: await request.text() rejects; the exception leaves fetch, which
\* returns no Response
BodyReadFails ==
    /\ pc = "start"
    /\ pc' = "rejected"
    /\ UNCHANGED <<request, v, zone, records, locations, idx, calls, caught, response>>

\* lines 198-206: validation, up to the first await
Validate ==
    /\ pc = "start"
    /\ LET r == validateChangeRequest(request)
       IN  IF ~r.ok THEN Raise(r.error)
           ELSE IF nothingRequested(r.value)
           THEN Raise(HttpError(400, "No update requested!"))
           ELSE /\ v' = r.value
                /\ pc' = "verify"
                /\ UNCHANGED <<zone, records, locations, idx, caught, response>>
    /\ UNCHANGED <<request, calls>>

TokenStatuses == {"active", "disabled", "expired"}

\* lines 208-211: cloudflare.user.tokens.verify()
VerifyToken ==
    /\ pc = "verify"
    /\ \/ /\ calls' = Append(calls, Call("user.tokens.verify", Undefined, [apiToken |-> v.cloudflareApiToken], TRUE, <<>>))
          /\ Raise(APIError)
       \/ \E tokenStatus \in TokenStatuses :
             /\ calls' = Append(calls, Call("user.tokens.verify", Undefined, [apiToken |-> v.cloudflareApiToken], FALSE, <<>>))
             /\ IF tokenStatus # "active"
                THEN Raise(HttpError(401, "This API Token is " \o tokenStatus))
                ELSE /\ pc' = "zones"
                     /\ UNCHANGED <<v, zone, records, locations, idx, caught, response>>
    /\ UNCHANGED request

Zones == [id : {"z1"}, account : {Undefined, Some("acc1")}]

\* lines 213-236: cloudflare.zones.list() and the code up to the next await
ListZones ==
    /\ pc = "zones"
    /\ \/ /\ calls' = Append(calls, Call("zones.list", Undefined, <<>>, TRUE, <<>>))
          /\ Raise(APIError)
       \/ \E zones \in SeqsUpTo(Zones, MaxZones) :
             /\ calls' = Append(calls, Call("zones.list", Undefined, <<>>, FALSE, idsOf(zones)))
             /\ IF zonesError(zones) # <<>>
                THEN Raise(zonesError(zones)[1])
                ELSE IF v.updateHostIp
                THEN /\ pc' = "records"
                     /\ zone' = zones[1]
                     /\ UNCHANGED <<v, records, locations, idx, caught, response>>
                ELSE GatewayPhase(v, zones[1])
    /\ UNCHANGED request

-----------------------------------------------------------------------------
(* updateDNSRecord, lines 94-132 *)

\* What dns.records.list can return for the name and type asked for
Records ==
    [id      : {Undefined, Some("r1")},
     proxied : {Undefined, Some(TRUE), Some(FALSE)},
     comment : {Undefined, Some("keep me")},
     content : {IPv4}]

\* proxiedOf that forgets the existing flag
proxiedOf_alwaysFalse(currentRecord) == FALSE

\* currentRecord.proxied ?? false, line 112
proxiedOf(currentRecord) ==
    IF currentRecord.proxied = Undefined THEN FALSE ELSE currentRecord.proxied[1]

\* the body of the update call, lines 117-124
recordUpdateParams(zoneId, newRecord, currentRecord) ==
    [content |-> newRecord.content,
     zone_id |-> zoneId,
     name    |-> newRecord.name,
     type    |-> newRecord.type,
     proxied |-> proxiedOf(currentRecord),
     comment |-> currentRecord.comment]

\* the filter of the list call, lines 97-101
recordListParams(zoneId, newRecord) ==
    [zone_id |-> zoneId, name |-> newRecord.name, type |-> newRecord.type]

\* lines 96-115: cloudflare.dns.records.list and the cardinality check
ListRecords ==
    /\ pc = "records"
    /\ \/ /\ calls' = Append(calls, Call("dns.records.list", Undefined, recordListParams(zone.id, v.record), TRUE, <<>>))
          /\ Raise(APIError)
       \/ \E recs \in SeqsUpTo(Records, MaxRecords) :
             /\ calls' = Append(calls, Call("dns.records.list", Undefined, recordListParams(zone.id, v.record), FALSE, idsOf(recs)))
             /\ IF recordsError(recs) # <<>>
                THEN Raise(recordsError(recs)[1])
                ELSE /\ pc' = "recordUpdate"
                     /\ records' = recs
                     /\ UNCHANGED <<v, zone, locations, idx, caught, response>>
    /\ UNCHANGED request

\* lines 116-131 and, back in fetch, lines 228-238: cloudflare.dns.records.update
UpdateRecord ==
    /\ pc = "recordUpdate"
    /\ \E failed \in BOOLEAN :
          /\ calls' = Append(calls, Call("dns.records.update", records[1].id,
                                         recordUpdateParams(zone.id, v.record, records[1]), failed, <<>>))
          /\ IF failed THEN Raise(APIError) ELSE GatewayPhase(v, zone)
    /\ UNCHANGED request

-----------------------------------------------------------------------------
(* updateGatewayLocation, lines 134-190 *)

Locations ==
    [id             : {Undefined, Some("l1")},
     name           : {"office"},
     client_default : {Some(TRUE), Some(FALSE)}]

\* lines 149-151
networkCIDR(ip) ==
    IF includes(ip, ":") THEN ip \o <<"/", "1", "2", "8">> ELSE ip \o <<"/", "3", "2">>

\* skippedAsNonDefault that ignores the scope
skippedAsNonDefault_never(location, updateType) == FALSE

\* line 162: the location is passed over because it is not the default one
skippedAsNonDefault(location, updateType) ==
    ~TruthyBool(location.client_default) /\ updateType = DefaultOnly

\* line 167: if (location.id)
hasId(location) == TruthyString(location.id)

\* the body of the update call, lines 171-178
locationUpdateParams(accountId, location, ip) ==
    [account_id     |-> accountId,
     name           |-> IF location.name # "" THEN location.name ELSE "Default Location",
     client_default |-> location.client_default,
     networks       |-> <<[network |-> networkCIDR(ip)]>>]

\* lines 139-151: cloudflare.zeroTrust.gateway.locations.list
ListLocations ==
    /\ pc = "locations"
    /\ \/ /\ calls' = Append(calls, Call("gateway.locations.list", Undefined, [account_id |-> zone.account[1]], TRUE, <<>>))
          /\ Raise(APIError)
       \/ \E locs \in SeqsUpTo(Locations, MaxLocations) :
             /\ calls' = Append(calls, Call("gateway.locations.list", Undefined, [account_id |-> zone.account[1]], FALSE, idsOf(locs)))
             /\ IF Len(locs) = 0
                THEN Succeed
                ELSE /\ pc' = "loop"
                     /\ locations' = locs
                     /\ idx' = 1
                     /\ UNCHANGED <<v, zone, records, caught, response>>
    /\ UNCHANGED request

\* lines 154-166 and 184-187: an iteration that issues no call
SkipLocation ==
    /\ pc = "loop"
    /\ idx <= Len(locations)
    /\ skippedAsNonDefault(locations[idx], v.gatewayUpdateType) \/ ~hasId(locations[idx])
    /\ idx' = idx + 1
    /\ UNCHANGED <<request, pc, v, zone, records, locations, calls, caught, response>>

\* UpdateLocation with the catch block swallowing the error: the loop goes on
UpdateLocation_swallow ==
    /\ pc = "loop"
    /\ idx <= Len(locations)
    /\ ~skippedAsNonDefault(locations[idx], v.gatewayUpdateType)
    /\ hasId(locations[idx])
    /\ \E failed \in BOOLEAN :
          calls' = Append(calls, Call("gateway.locations.update", locations[idx].id,
                                      locationUpdateParams(zone.account[1], locations[idx], v.record.content),
                                      failed, <<>>))
    /\ idx' = idx + 1
    /\ UNCHANGED <<request, pc, v, zone, records, locations, caught, response>>

\* lines 154-183: an iteration that issues gateway.locations.update
UpdateLocation ==
    /\ pc = "loop"
    /\ idx <= Len(locations)
    /\ ~skippedAsNonDefault(locations[idx], v.gatewayUpdateType)
    /\ hasId(locations[idx])
    /\ \E failed \in BOOLEAN :
          /\ calls' = Append(calls, Call("gateway.locations.update", locations[idx].id,
                                         locationUpdateParams(zone.account[1], locations[idx], v.record.content),
                                         failed, <<>>))
          /\ IF failed
             THEN Raise(APIError)
             ELSE /\ idx' = idx + 1
                  /\ UNCHANGED <<pc, v, zone, records, locations, caught, response>>
    /\ UNCHANGED request

\* line 188, then line 238: the loop is over
FinishLocations ==
    /\ pc = "loop"
    /\ idx > Len(locations)
    /\ Succeed
    /\ UNCHANGED <<request, calls>>

Next ==
    \/ BodyReadFails
    \/ Validate
    \/ VerifyToken
    \/ ListZones
    \/ ListRecords
    \/ UpdateRecord
    \/ ListLocations
    \/ SkipLocation
    \/ UpdateLocation
    \/ FinishLocations

Spec == Init /\ [][Next]_vars

-----------------------------------------------------------------------------
(* Vocabulary of the properties *)

Responded == response # <<>>
Status == response[1].status
Body == response[1].body

MutatingOps == {"dns.records.update", "gateway.locations.update"}
NoMutation == \A j \in 1..Len(calls) : calls[j].op \notin MutatingOps
InternalServerError == [status |-> 500, body |-> "Internal Server Error"]

\* the k-th call is a list call of kind op that returned a result
Listed(k, op) == calls[k].op = op /\ ~calls[k].failed

CallsOf(op) == SelectSeq(calls, LAMBDA c : c.op = op)

-----------------------------------------------------------------------------
(* C1: when zones.list returns no zone or more than one zone, the answer   *)
(* is 400 with the message of the zone-count problem, the zone listing is  *)
(* the last call of the request, and no DNS record update and no gateway   *)
(* location update is issued.                                              *)
C1_ZoneCardinality ==
    \A k \in 1..Len(calls) :
        (Listed(k, "zones.list") /\ Len(calls[k].returned) # 1) =>
            /\ Responded
            /\ Status = 400
            /\ Body = IF Len(calls[k].returned) = 0
                      THEN "No zones found! You must supply an API Token scoped to a single zone."
                      ELSE "More than one zone was found! You must supply an API Token scoped to a single zone."
            /\ k = Len(calls)
            /\ NoMutation

C1_Witness ==
    /\ pc = "done"
    /\ \E k \in 1..Len(calls) : Listed(k, "zones.list") /\ Len(calls[k].returned) > 1

-----------------------------------------------------------------------------
(* C6: when dns.records.list returns no record or more than one record,    *)
(* the answer is 400 ("No record found! You must first manually create the *)
(* record." for none, "More than one matching record found!" for several), *)
(* the listing is the last call of the request and no dns.records.update   *)
(* is issued.                                                              *)
C6_RecordCardinality ==
    \A k \in 1..Len(calls) :
        (Listed(k, "dns.records.list") /\ Len(calls[k].returned) # 1) =>
            /\ Responded
            /\ Status = 400
            /\ Body = IF Len(calls[k].returned) = 0
                      THEN "No record found! You must first manually create the record."
                      ELSE "More than one matching record found!"
            /\ k = Len(calls)
            /\ CallsOf("dns.records.update") = <<>>

C6_Witness ==
    /\ pc = "done"
    /\ \E k \in 1..Len(calls) : Listed(k, "dns.records.list") /\ Len(calls[k].returned) > 1

-----------------------------------------------------------------------------
(* C7: a response is 200 "OK" when nothing was thrown, the status and      *)
(* message of the HttpError that was thrown, or 500 "Internal Server       *)
(* Error"; a request whose upstream call failed gets the last of these, so *)
(* the upstream error's message is not the body.                           *)
C7_ResponseShapes ==
    /\ Responded =>
          \/ caught = <<>> /\ response[1] = [status |-> 200, body |-> "OK"]
          \/ /\ caught # <<>>
             /\ caught[1].name = "HttpError"
             /\ response[1] = [status |-> caught[1].statusCode, body |-> caught[1].message]
          \/ /\ caught # <<>>
             /\ caught[1].name # "HttpError"
             /\ response[1] = InternalServerError
    /\ \A k \in 1..Len(calls) :
          calls[k].failed =>
              /\ Responded
              /\ response[1] = InternalServerError
              /\ Body # APIError.message

C7_Witness ==
    /\ Responded
    /\ \E k \in 1..Len(calls) : calls[k].failed /\ calls[k].op = "dns.records.update"

-----------------------------------------------------------------------------
(* C8: a gateway.locations.update that fails is the last call of the       *)
(* request (no later location is updated, nothing is rolled back) and the  *)
(* request ends with 500.                                                  *)
C8_FailureAbortsLoop ==
    \A k \in 1..Len(calls) :
        (calls[k].op = "gateway.locations.update" /\ calls[k].failed) =>
            /\ k = Len(calls)
            /\ pc = "done"
            /\ Responded
            /\ Status = 500

\* the first of three listed locations was updated, the second failed, the
\* third, which scope All would have updated, was never reached
C8_Witness ==
    /\ pc = "done"
    /\ request.gateway = Some("All")
    /\ \E k \in 3..Len(calls) :
          /\ calls[k].op = "gateway.locations.update" /\ calls[k].failed
          /\ calls[k - 1].op = "gateway.locations.update" /\ ~calls[k - 1].failed
          /\ Listed(k - 2, "gateway.locations.list")
          /\ calls[k - 2].returned = <<Some("l1"), Some("l1"), Some("l1")>>

-----------------------------------------------------------------------------
(* C10: a response with status 400, 401 or 422 means that no DNS record    *)
(* update and no gateway location update was issued in the request.        *)
C10_No4xxAfterMutation ==
    (Responded /\ Status \in {400, 401, 422}) => NoMutation

-----------------------------------------------------------------------------
(* What a request presents, read off the request itself *)

ClientKeyName(d) == d \o "_CLIENT_API_KEY"
TokenName(d) == d \o "_CLOUDFLARE_API_TOKEN"

DomainHasKey(req) == req.domain # Null /\ ClientKeyName(req.domain[1]) \in DOMAIN Env
DomainConfigured(req) == DomainHasKey(req) /\ TokenName(req.domain[1]) \in DOMAIN Env

DecodablePayload(req) ==
    /\ req.authorization # Null
    /\ req.authorization[1].data # Undefined
    /\ req.authorization[1].data[1].valid
PayloadOf(req) == req.authorization[1].data[1].bytes

IsControl(c) == c \in (0..31) \cup {127}
ContainsControl(p) == \E k \in 1..Len(p) : IsControl(p[k])

\* the longest prefix of the payload that holds no ':'
PresentedSecret(p) ==
    LET n == CHOOSE m \in 0..Len(p) :
                 /\ \A j \in 1..m : p[j] # 58
                 /\ m = Len(p) \/ p[m + 1] = 58
    IN  SubSeq(p, 1, n)

SecretMatches(req) ==
    /\ DomainHasKey(req)
    /\ DecodablePayload(req)
    /\ PresentedSecret(PayloadOf(req)) = Env[ClientKeyName(req.domain[1])]

WrongSecret(req) == DecodablePayload(req) /\ ~SecretMatches(req)

IpResolved(req) ==
    LET given == IF req.ip # Null /\ req.ip[1] # <<>> THEN req.ip ELSE req.myip
    IN  given # Null /\ (given[1] = auto => req.cfConnectingIp # Null)

Answered == pc \notin {"start", "rejected"}

-----------------------------------------------------------------------------
-----------------------------------------------------------------------------
(* C3: a Basic payload with a control character (0x00-0x1F, 0x7F) never    *)
(* authenticates: no upstream call is issued, and wherever the domain has  *)
(* a configured secret to compare with, the answer is 401 "Invalid API key *)
(* or token.", whether or not the part before the first ':' equals that    *)
(* secret.                                                                 *)
C3_ControlCharacterRejected ==
    (Answered /\ DecodablePayload(request) /\ ContainsControl(PayloadOf(request))) =>
        /\ Responded
        /\ calls = <<>>
        /\ request.domain # Null => Status = 401
        /\ DomainConfigured(request) => Body = "Invalid API key or token."

C3_Witness ==
    /\ pc = "done"
    /\ DomainConfigured(request)
    /\ SecretMatches(request)
    /\ PayloadOf(request) = <<65, 58, 127>>
    /\ Status = 401

-----------------------------------------------------------------------------
(* C9: an upstream call is issued only in a request whose domain is        *)
(* configured, whose presented secret is the domain's client key, whose IP *)
(* was resolved and which asks for the hostname or the gateway update; a   *)
(* request that passes validation and asks for neither ends with 400 "No   *)
(* update requested!" and no upstream call.                                *)
C9_ValidatedBeforeUpstream ==
    /\ calls # <<>> =>
          /\ DomainConfigured(request)
          /\ SecretMatches(request)
          /\ IpResolved(request)
          /\ request.hostname # Null \/ request.gateway # Null
    /\ ( /\ Answered
         /\ DomainConfigured(request)
         /\ SecretMatches(request)
         /\ ~ContainsControl(PayloadOf(request))
         /\ IpResolved(request)
         /\ request.hostname = Null
         /\ request.gateway = Null ) =>
          /\ Responded
          /\ response[1] = [status |-> 400, body |-> "No update requested!"]
          /\ calls = <<>>

C9_Witness ==
    /\ calls # <<>>
    /\ request.ip = Some(auto)
    /\ request.cfConnectingIp # Null

-----------------------------------------------------------------------------
(* C4, as the claim states it: once dns.records.list has returned exactly  *)
(* one record and updateDNSRecord is over, exactly one dns.records.update  *)
(* was issued, right after the listing and addressed to that record's id.  *)
C4_OneMatchOneUpdate ==
    \A k \in 1..Len(calls) :
        (Listed(k, "dns.records.list") /\ Len(calls[k].returned) = 1 /\ pc # "recordUpdate") =>
            /\ Len(CallsOf("dns.records.update")) = 1
            /\ Len(calls) > k
            /\ calls[k + 1].op = "dns.records.update"
            /\ calls[k + 1].id = calls[k].returned[1]

LastCall(cs) == cs[Len(cs)]

(* C4, amended: when dns.records.list returns exactly one record and that  *)
(* record has an id, the next call is the one dns.records.update of the    *)
(* request: addressed to that id, content the requested IP, type and name  *)
(* those of the listing, proxied and comment those of the record (proxied  *)
(* false when the record has none).  A single record without an id is      *)
(* answered 400 "No record found! ..." with no update call.                *)
C4_SingleMatchUpdatedOnce ==
    [][ /\ (pc = "records" /\ Len(calls') > Len(calls) /\ ~LastCall(calls').failed
               /\ Len(LastCall(calls').returned) = 1) =>
              IF LastCall(calls').returned[1] # Undefined
              THEN /\ pc' = "recordUpdate"
                   /\ Len(records') = 1
                   /\ records'[1].id = LastCall(calls').returned[1]
              ELSE /\ pc' = "done"
                   /\ response' = Some([status |-> 400,
                                        body |-> "No record found! You must first manually create the record."])
        /\ pc = "recordUpdate" =>
              /\ pc' # "recordUpdate"
              /\ Len(calls') = Len(calls) + 1
              /\ SubSeq(calls', 1, Len(calls)) = calls
              /\ LastCall(calls') =
                    [op |-> "dns.records.update",
                     id |-> records[1].id,
                     params |-> [content |-> v.record.content,
                                 zone_id |-> LastCall(calls).params.zone_id,
                                 name    |-> LastCall(calls).params.name,
                                 type    |-> LastCall(calls).params.type,
                                 proxied |-> IF records[1].proxied = Undefined
                                             THEN FALSE ELSE records[1].proxied[1],
                                 comment |-> records[1].comment],
                     failed |-> LastCall(calls').failed,
                     returned |-> <<>>]
        /\ (Len(calls') > Len(calls) /\ LastCall(calls').op = "dns.records.update") =>
              pc = "recordUpdate"
      ]_vars

C4_Witness ==
    /\ pc # "recordUpdate"
    /\ \E k \in 2..Len(calls) :
          /\ calls[k].op = "dns.records.update"
          /\ calls[k].id = Some("r1")
          /\ calls[k].params.proxied = TRUE
          /\ calls[k].params.comment = Some("keep me")
          /\ calls[k].params.content = IPv6
          /\ Listed(k - 1, "dns.records.list")

-----------------------------------------------------------------------------
(* C5: while no location update has failed, the update calls issued so far *)
(* are, in order, those for the locations already passed that have a       *)
(* non-empty id and, unless the scope is All, the default flag; each       *)
(* carries one network, the CIDR of the IP, and the location's own default *)
(* flag.  When the loop is over (idx beyond the list) these are all the    *)
(* listed locations.                                                       *)
C5_Eligible(l) ==
    /\ l.id # Undefined
    /\ l.id[1] # ""
    /\ request.gateway = Some("All") \/ l.client_default = Some(TRUE)

C5_CIDR(ip) ==
    IF ip = IPv4 THEN <<"1", ".", "2", "/", "3", "2">>
    ELSE <<"a", ":", ":", "1", "/", "1", "2", "8">>

C5_UpdatedLocations ==
    pc = "loop" =>
        LET passed == SelectSeq(SubSeq(locations, 1, idx - 1), C5_Eligible)
            issued == CallsOf("gateway.locations.update")
        IN  /\ Len(issued) = Len(passed)
            /\ \A j \in 1..Len(issued) :
                  /\ ~issued[j].failed
                  /\ issued[j].id = passed[j].id
                  /\ issued[j].params.networks = <<[network |-> C5_CIDR(v.record.content)]>>
                  /\ issued[j].params.client_default = passed[j].client_default

\* scope default-only, the loop is over: one location updated, two passed over
C5_Witness ==
    /\ pc = "loop"
    /\ idx > Len(locations)
    /\ Len(locations) = 3
    /\ request.gateway = Some("Default")
    /\ Len(CallsOf("gateway.locations.update")) = 1
    /\ \E k \in 1..3 : locations[k].id = Undefined /\ locations[k].client_default = Some(TRUE)
    /\ \E k \in 1..3 : locations[k].id # Undefined /\ locations[k].client_default = Some(FALSE)

====
